---- MODULE Spec2Model ----
(***************************************************************************)
(* Model of src/src/model_prediction.py: the ModelPredictor class          *)
(* (constructor, preprocess_input, make_predictions) and main(), run as a  *)
(* command-line process or used as an imported class, over a file system   *)
(* that outlives the processes.                                            *)
(*                                                                         *)
(* A path is a sequence of one-character strings.  A CSV file is the       *)
(* sequence of its lines, the header first; a DataFrame is a record of its *)
(* column names and its rows.  Paths follow posixpath.                     *)
(***************************************************************************)
EXTENDS Integers, Sequences, FiniteSets, TLC

(* ------------------------------ bounds -------------------------------- *)
\* longest header of an enumerated input table
MaxCols == 3
\* most data rows of an enumerated input table
MaxRows == 2
\* longest enumerated input path
MaxPathLen == 3
\* make_predictions calls explored in one behaviour of the multi-call family
MaxCalls == 2

(* --------------------------- string literals -------------------------- *)
\* 'model.joblib' (lines 19, 22, 90)
ModelFile == <<"m","o","d","e","l",".","j","o","b","l","i","b">>
\* "_with_predictions.csv" (line 67)
WithPredictions ==
    <<"_","w","i","t","h","_","p","r","e","d","i","c","t","i","o","n","s",
      ".","c","s","v">>
\* 'target' (lines 40, 41)
TargetColumn == "target"
\* 'predicted_target' (line 63)
PredictedColumn == "predicted_target"
\* sys._MEIPASS of a bundled executable (line 18)
MEIPASS == <<"/","t","m","p","/","_","M","E","I">>

(* ------------------------------ os.path ------------------------------- *)
Max(S) == CHOOSE x \in S : \A y \in S : y <= x

\* str.rfind, 1-based; 0 when c does not occur
RFind(p, c) ==
    LET S == {i \in 1..Len(p) : p[i] = c}
    IN  IF S = {} THEN 0 ELSE Max(S)

\* a plausible slip: cut at the first dot of the file name (str.split('.')[0])
SplitextFirstDot(p) ==
    LET sepIndex == RFind(p, "/")
        dots == {i \in (sepIndex + 2)..Len(p) : p[i] = "."}
    IN  IF dots = {} THEN <<p, <<>>>>
        ELSE LET d == CHOOSE x \in dots : \A y \in dots : x <= y
             IN  <<SubSeq(p, 1, d - 1), SubSeq(p, d, Len(p))>>

\* os.path.splitext: the extension starts at the last dot of the last path
\* component, leading dots of that component not counting
splitext(p) ==
    LET sepIndex == RFind(p, "/")
        dotIndex == RFind(p, ".")
    IN  IF /\ dotIndex > sepIndex
           /\ \E k \in (sepIndex + 1)..(dotIndex - 1) : p[k] # "."
        THEN <<SubSeq(p, 1, dotIndex - 1), SubSeq(p, dotIndex, Len(p))>>
        ELSE <<p, <<>>>>

\* os.path.join(a, b) for a relative b
join(a, b) ==
    IF a = <<>> \/ a[Len(a)] = "/" THEN a \o b ELSE a \o <<"/">> \o b

\* a plausible slip: the constructor honours its argument
ResolveHonouringArgument(arg, isFrozen) == arg

\* lines 16-22: the location the constructor loads, whatever its argument
ResolveModelPath(arg, isFrozen) ==
    IF isFrozen THEN join(MEIPASS, ModelFile) ELSE ModelFile

\* a plausible slip: the table is written over the file it was read from
OutputPathInPlace(input) == input

\* lines 66-67
OutputPath(input) == splitext(input)[1] \o WithPredictions

(* ----------------------------- DataFrames ----------------------------- *)
NoFrame == [columns |-> <<>>, rows |-> <<>>]

RemoveAt(s, k) == SubSeq(s, 1, k - 1) \o SubSeq(s, k + 1, Len(s))

IndexOf(s, x) == CHOOSE i \in 1..Len(s) : s[i] = x

Range(s) == {s[i] : i \in 1..Len(s)}

\* pd.read_csv of a file that parses: the first line names the columns
read_csv(file) == [columns |-> file[1], rows |-> Tail(file)]

\* DataFrame.drop(name, axis=1)
drop(df, name) ==
    LET k == IndexOf(df.columns, name)
    IN  [columns |-> RemoveAt(df.columns, k),
         rows    |-> [i \in 1..Len(df.rows) |-> RemoveAt(df.rows[i], k)]]

\* line 40: 'target' in data.columns
HasTarget(df) == TargetColumn \in Range(df.columns)

\* a plausible slip: the column left of the label is dropped with it
DropTargetAndLeft(df) ==
    LET k == IndexOf(df.columns, TargetColumn)
    IN  IF k > 1 THEN drop(drop(df, TargetColumn), df.columns[k - 1])
        ELSE drop(df, TargetColumn)

\* line 41
DropTarget(df) == drop(df, TargetColumn)

\* a plausible slip: the label column is matched whatever its case
PreprocessAnyCase(df) ==
    IF HasTarget(df) THEN DropTarget(df)
    ELSE IF "Target" \in Range(df.columns) THEN drop(df, "Target")
    ELSE df

\* lines 40-42: the table read, without its 'target' column if it has one
preprocess_input(df) == IF HasTarget(df) THEN DropTarget(df) ELSE df

\* DataFrame.__setitem__: an existing column is overwritten where it stands,
\* a new one is appended last
setitem(df, name, values) ==
    IF name \in Range(df.columns)
    THEN LET k == IndexOf(df.columns, name)
         IN  [columns |-> df.columns,
              rows    |-> [i \in 1..Len(df.rows) |->
                              [df.rows[i] EXCEPT ![k] = values[i]]]]
    ELSE [columns |-> Append(df.columns, name),
          rows    |-> [i \in 1..Len(df.rows) |-> Append(df.rows[i], values[i])]]

\* DataFrame.to_csv(index=False): the header line, then one line per row
to_csv(df) == <<df.columns>> \o df.rows

\* a plausible slip: to_csv(mode='a') adds to the file that is there
WriteAppending(files, path, content) ==
    IF path \in DOMAIN files
    THEN [files EXCEPT ![path] = files[path] \o content]
    ELSE [q \in DOMAIN files \cup {path} |->
             IF q = path THEN content ELSE files[q]]

\* open(path, 'w') and write: the file is created or replaced
WriteFile(files, path, content) ==
    [q \in DOMAIN files \cup {path} |-> IF q = path THEN content ELSE files[q]]

(* ------------------------------ the model ----------------------------- *)
\* the artifact is opaque: two deterministic stand-ins
Models == {"sum", "first"}

RECURSIVE SumSeq(_)
SumSeq(s) == IF s = <<>> THEN 0 ELSE Head(s) + SumSeq(Tail(s))

\* the label the model gives one row of features
PredictRow(m, row) == IF m = "sum" THEN SumSeq(row) ELSE row[1]

\* model.predict raises on a table it was not trained for
Accepts(m, df) == m = "sum" \/ Len(df.columns) >= 1

\* line 60: model.predict(data)
predict(m, df) == [i \in 1..Len(df.rows) |-> PredictRow(m, df.rows[i])]

(* ------------------------------- inputs ------------------------------- *)
SeqsUpTo(S, n) == UNION {[1..k -> S] : k \in 0..n}

Distinct(s) == \A i, j \in 1..Len(s) : s[i] = s[j] => i = j

\* column names: a feature, the label, a feature that differs from the label
\* by case only, and the name of the result column
ColumnNames == {"a", "Target", "target", "predicted_target"}

Headers == {h \in SeqsUpTo(ColumnNames, MaxCols) : Len(h) >= 1 /\ Distinct(h)}

\* the cells of a row are distinct, and rows of different seeds are disjoint
Seeds == {0, 1}

RowOf(seed, n) == [j \in 1..n |-> seed * n + j]

\* the CSV files that parse: a header of distinct names and rows as wide
Tables ==
    {<<h>> \o [i \in 1..Len(r) |-> RowOf(r[i], Len(h))] :
        h \in Headers, r \in SeqsUpTo(Seeds, MaxRows)}

\* a file pd.read_csv raises EmptyDataError on
EmptyFile == <<>>

\* columns a,b,target with rows (1,2,0),(3,4,1); b is spelt Target here
ExampleTable == << <<"a", "Target", "target">>, <<1, 2, 0>>, <<3, 4, 1>> >>

ExampleTables ==
    { ExampleTable,
      << <<"a">>, <<1>>, <<2>> >>,
      << <<"a", "predicted_target">>, <<1, 5>> >>,
      << <<"target">>, <<1>> >>,
      EmptyFile }

FooCsv == <<"f","o","o",".","c","s","v">>
FooNoExt == <<"f","o","o">>
FooOut == FooNoExt \o WithPredictions
ArchiveCsv ==
    <<"a","r","c","h","i","v","e","/","d","a","t","a",".","v","2",".","c","s","v">>
ArchiveOut ==
    <<"a","r","c","h","i","v","e","/","d","a","t","a",".","v","2">>
    \o WithPredictions
DotDirFile == <<"d",".","d","/","f">>

ExamplePaths == {FooCsv, FooNoExt, FooOut, ArchiveCsv, DotDirFile}

PathChars == {"a", ".", "/"}

\* a path that can name a regular file: its last component is not empty,
\* "." or ".."
IsFilePath(p) ==
    LET name == SubSeq(p, RFind(p, "/") + 1, Len(p))
    IN  name \notin {<<>>, <<".">>, <<".", ".">>}

FilePaths ==
    {p \in SeqsUpTo(PathChars, MaxPathLen) : IsFilePath(p)} \cup ExamplePaths

\* a path no file is ever at
MissingPath == <<"n","o",".","c","s","v">>

\* the paths the model file can be at
ModelLocations == {ModelFile, join(MEIPASS, ModelFile)}

\* what callers pass the constructor
ModelPathArgs == {ModelFile, <<"o",".","j","o","b","l","i","b">>}

(* ------------------------------- state -------------------------------- *)
VARIABLES
    fs,          \* the files: path -> lines
    artifacts,   \* the model files: path -> model
    budget,      \* make_predictions calls still to explore
    pc,          \* where the process is
    kind,        \* "cli": main(); "lib": the class used by a caller
    frozen,      \* sys.frozen
    argv,        \* sys.argv[1:]
    input_file,  \* main's input_file
    ctor_arg,    \* the model_path the caller passed the constructor
    model_path,  \* the constructor's model_path variable
    loaded_from, \* the path given to joblib.load
    self_model,  \* self.model
    input_csv,   \* make_predictions' argument
    csv_data,    \* what pd.read_csv returned (line 38)
    data,        \* the data variable of preprocess_input / make_predictions
    predictions, \* line 60
    output_csv,  \* line 67
    output_file, \* what make_predictions returned
    stdout,      \* the lines printed
    exit_code,   \* -1 while running
    steps,       \* the steps this process has taken, in order
    failed_at,   \* the step that raised
    fs_at_call,  \* the files when make_predictions was called
    last         \* the latest make_predictions call that returned

vars ==
    <<fs, artifacts, budget, pc, kind, frozen, argv, input_file, ctor_arg,
      model_path, loaded_from, self_model, input_csv, csv_data, data,
      predictions, output_csv, output_file, stdout, exit_code, steps,
      failed_at, fs_at_call, last>>

NoLast == [input |-> <<>>, output |-> <<>>, content |-> <<>>, model |-> "None"]

\* a process that has not started
Fresh ==
    /\ pc = "idle"
    /\ kind = "None"
    /\ frozen = FALSE
    /\ argv = <<>>
    /\ input_file = <<>>
    /\ ctor_arg = <<>>
    /\ model_path = <<>>
    /\ loaded_from = <<>>
    /\ self_model = "None"
    /\ input_csv = <<>>
    /\ csv_data = NoFrame
    /\ data = NoFrame
    /\ predictions = <<>>
    /\ output_csv = <<>>
    /\ output_file = <<>>
    /\ stdout = <<>>
    /\ exit_code = -1
    /\ steps = <<>>
    /\ failed_at = "None"
    /\ last = NoLast

SameModelEverywhere(m) == [p \in ModelLocations |-> m]

\* one file at foo.csv, every enumerated table in it
InitTables ==
    /\ \E t \in Tables \cup {EmptyFile} : fs = (FooCsv :> t)
    /\ \E m \in Models : artifacts = SameModelEverywhere(m)
    /\ budget = 1

\* the example table, at every enumerated path
InitPaths ==
    /\ \E p \in FilePaths : fs = (p :> ExampleTable)
    /\ artifacts = SameModelEverywhere("sum")
    /\ budget = 1

\* example tables at example paths, any installation of the model, and
\* several calls
InitCalls ==
    /\ \E p \in ExamplePaths, t \in ExampleTables : fs = (p :> t)
    /\ artifacts \in UNION {[D -> Models] : D \in SUBSET ModelLocations}
    /\ budget = MaxCalls

Init ==
    /\ Fresh
    /\ InitTables \/ InitPaths \/ InitCalls
    /\ fs_at_call = fs

(* ------------------------------ processes ----------------------------- *)
\* a new process: nothing but the files outlives the one before
Start(k, isFrozen, args) ==
    /\ pc \in {"idle", "done", "failed"}
    /\ budget > 0
    /\ kind' = k
    /\ frozen' = isFrozen
    /\ argv' = args
    /\ input_file' = <<>>
    /\ ctor_arg' = <<>>
    /\ model_path' = <<>>
    /\ loaded_from' = <<>>
    /\ self_model' = "None"
    /\ input_csv' = <<>>
    /\ csv_data' = NoFrame
    /\ data' = NoFrame
    /\ predictions' = <<>>
    /\ output_csv' = <<>>
    /\ output_file' = <<>>
    /\ stdout' = <<>>
    /\ exit_code' = -1
    /\ steps' = <<>>
    /\ failed_at' = "None"
    /\ fs_at_call' = fs
    /\ UNCHANGED <<fs, artifacts, budget, last>>

\* the paths a caller may name: a file that is there, or one that is not
CallablePaths == DOMAIN fs \cup {MissingPath}

\* lines 98-99: the script is run, with or without an argument
RunMain ==
    /\ \E isFrozen \in BOOLEAN, args \in {<<>>} \cup {<<p>> : p \in CallablePaths} :
          Start("cli", isFrozen, args)
    /\ pc' = "main87"

\* the module is imported by a caller
Import ==
    /\ \E isFrozen \in BOOLEAN : Start("lib", isFrozen, <<>>)
    /\ pc' = "caller"

\* a plausible slip: main wraps its body in try/except and exits normally
RaiseCaught(step) ==
    /\ pc' = "done"
    /\ exit_code' = 0
    /\ failed_at' = step

\* an exception nothing catches: the traceback is printed and the exit
\* status is 1
Raise(step) ==
    /\ pc' = "failed"
    /\ exit_code' = 1
    /\ failed_at' = step

\* line 87: input_file = sys.argv[1]
MainArgv ==
    /\ pc = "main87"
    /\ \/ /\ argv = <<>>
          /\ Raise("argv")
          /\ UNCHANGED input_file
       \/ /\ argv # <<>>
          /\ input_file' = argv[1]
          /\ pc' = "main90"
          /\ UNCHANGED <<exit_code, failed_at>>
    /\ UNCHANGED <<fs, artifacts, budget, kind, frozen, argv, ctor_arg,
                   model_path, loaded_from, self_model, input_csv, csv_data,
                   data, predictions, output_csv, output_file, stdout, steps,
                   fs_at_call, last>>

\* line 90: ModelPredictor(model_path='model.joblib')
MainConstruct ==
    /\ pc = "main90"
    /\ ctor_arg' = ModelFile
    /\ model_path' = ModelFile
    /\ pc' = "resolve"
    /\ UNCHANGED <<fs, artifacts, budget, kind, frozen, argv, input_file,
                   loaded_from, self_model, input_csv, csv_data, data,
                   predictions, output_csv, output_file, stdout, exit_code,
                   steps, failed_at, fs_at_call, last>>

\* line 8: a caller constructs ModelPredictor(model_path)
LibConstruct ==
    /\ pc = "caller"
    /\ \E arg \in ModelPathArgs :
          /\ ctor_arg' = arg
          /\ model_path' = arg
    /\ pc' = "resolve"
    /\ UNCHANGED <<fs, artifacts, budget, kind, frozen, argv, input_file,
                   loaded_from, self_model, input_csv, csv_data, data,
                   predictions, output_csv, output_file, stdout, exit_code,
                   steps, failed_at, fs_at_call, last>>

\* lines 16-22
Resolve ==
    /\ pc = "resolve"
    /\ model_path' = ResolveModelPath(model_path, frozen)
    /\ steps' = Append(steps, "resolve")
    /\ pc' = "load"
    /\ UNCHANGED <<fs, artifacts, budget, kind, frozen, argv, input_file,
                   ctor_arg, loaded_from, self_model, input_csv, csv_data,
                   data, predictions, output_csv, output_file, stdout,
                   exit_code, failed_at, fs_at_call, last>>

\* line 24: self.model = joblib.load(model_path)
Load ==
    /\ pc = "load"
    /\ loaded_from' = model_path
    /\ steps' = Append(steps, "load")
    /\ \/ /\ model_path \in DOMAIN artifacts
          /\ self_model' = artifacts[model_path]
          /\ pc' = IF kind = "cli" THEN "main93" ELSE "ready"
          /\ UNCHANGED <<exit_code, failed_at>>
       \/ /\ model_path \notin DOMAIN artifacts
          /\ Raise("load")
          /\ UNCHANGED self_model
    /\ UNCHANGED <<fs, artifacts, budget, kind, frozen, argv, input_file,
                   ctor_arg, model_path, input_csv, csv_data, data,
                   predictions, output_csv, output_file, stdout, fs_at_call,
                   last>>

\* make_predictions is entered with input_csv = p
Call(p) ==
    /\ budget > 0
    /\ budget' = budget - 1
    /\ input_csv' = p
    /\ csv_data' = NoFrame
    /\ data' = NoFrame
    /\ predictions' = <<>>
    /\ output_csv' = <<>>
    /\ fs_at_call' = fs
    /\ pc' = "read"
    /\ UNCHANGED <<fs, artifacts, kind, frozen, argv, input_file, ctor_arg,
                   model_path, loaded_from, self_model, output_file, stdout,
                   exit_code, steps, failed_at, last>>

\* line 93: predictor.make_predictions(input_file)
MainCall ==
    /\ pc = "main93"
    /\ Call(input_file)

\* a caller calls make_predictions on its predictor
LibCall ==
    /\ pc = "ready"
    /\ \E p \in CallablePaths : Call(p)

\* pd.read_csv finds the file and can parse it
Readable(files, p) == p \in DOMAIN files /\ files[p] # EmptyFile

\* line 38: data = pd.read_csv(file_path)
Read ==
    /\ pc = "read"
    /\ steps' = Append(steps, "read")
    /\ \/ /\ Readable(fs, input_csv)
          /\ csv_data' = read_csv(fs[input_csv])
          /\ data' = read_csv(fs[input_csv])
          /\ pc' = "drop"
          /\ UNCHANGED <<exit_code, failed_at>>
       \/ /\ ~Readable(fs, input_csv)
          /\ Raise("read")
          /\ UNCHANGED <<csv_data, data>>
    /\ UNCHANGED <<fs, artifacts, budget, kind, frozen, argv, input_file,
                   ctor_arg, model_path, loaded_from, self_model, input_csv,
                   predictions, output_csv, output_file, stdout, fs_at_call,
                   last>>

\* lines 40-42 and the assignment of line 57
Drop ==
    /\ pc = "drop"
    /\ data' = preprocess_input(data)
    /\ steps' = Append(steps, "drop")
    /\ pc' = "predict"
    /\ UNCHANGED <<fs, artifacts, budget, kind, frozen, argv, input_file,
                   ctor_arg, model_path, loaded_from, self_model, input_csv,
                   csv_data, predictions, output_csv, output_file, stdout,
                   exit_code, failed_at, fs_at_call, last>>

\* line 60: predictions = self.model.predict(data)
Predict ==
    /\ pc = "predict"
    /\ steps' = Append(steps, "predict")
    /\ \/ /\ Accepts(self_model, data)
          /\ predictions' = predict(self_model, data)
          /\ pc' = "append"
          /\ UNCHANGED <<exit_code, failed_at>>
       \/ /\ ~Accepts(self_model, data)
          /\ Raise("predict")
          /\ UNCHANGED predictions
    /\ UNCHANGED <<fs, artifacts, budget, kind, frozen, argv, input_file,
                   ctor_arg, model_path, loaded_from, self_model, input_csv,
                   csv_data, data, output_csv, output_file, stdout,
                   fs_at_call, last>>

\* line 63: data['predicted_target'] = predictions
AppendColumn ==
    /\ pc = "append"
    /\ data' = setitem(data, PredictedColumn, predictions)
    /\ steps' = Append(steps, "append")
    /\ pc' = "derive"
    /\ UNCHANGED <<fs, artifacts, budget, kind, frozen, argv, input_file,
                   ctor_arg, model_path, loaded_from, self_model, input_csv,
                   csv_data, predictions, output_csv, output_file, stdout,
                   exit_code, failed_at, fs_at_call, last>>

\* lines 66-67
Derive ==
    /\ pc = "derive"
    /\ output_csv' = OutputPath(input_csv)
    /\ steps' = Append(steps, "derive")
    /\ pc' = "write"
    /\ UNCHANGED <<fs, artifacts, budget, kind, frozen, argv, input_file,
                   ctor_arg, model_path, loaded_from, self_model, input_csv,
                   csv_data, data, predictions, output_file, stdout,
                   exit_code, failed_at, fs_at_call, last>>

\* line 70: data.to_csv(output_csv, index=False).  The write can fail before
\* the file is opened, or after it was opened and truncated.
Write ==
    /\ pc = "write"
    /\ steps' = Append(steps, "write")
    /\ \/ /\ fs' = WriteFile(fs, output_csv, to_csv(data))
          /\ pc' = "return"
          /\ UNCHANGED <<exit_code, failed_at>>
       \/ /\ Raise("write")
          /\ UNCHANGED fs
       \/ /\ Raise("write")
          /\ fs' = WriteFile(fs, output_csv, EmptyFile)
    /\ UNCHANGED <<artifacts, budget, kind, frozen, argv, input_file,
                   ctor_arg, model_path, loaded_from, self_model, input_csv,
                   csv_data, data, predictions, output_csv, output_file,
                   stdout, fs_at_call, last>>

\* line 73: return output_csv
Return ==
    /\ pc = "return"
    /\ output_file' = output_csv
    /\ last' = [input |-> input_csv, output |-> output_csv,
                content |-> fs[output_csv], model |-> self_model]
    /\ pc' = IF kind = "cli" THEN "main95" ELSE "ready"
    /\ UNCHANGED <<fs, artifacts, budget, kind, frozen, argv, input_file,
                   ctor_arg, model_path, loaded_from, self_model, input_csv,
                   csv_data, data, predictions, output_csv, stdout,
                   exit_code, steps, failed_at, fs_at_call>>

\* a plausible slip: the path is printed before the table is written
ReportBeforeWrite ==
    /\ pc = "write"
    /\ stdout = <<>>
    /\ stdout' = Append(stdout, <<"Predictions saved to: ", output_csv>>)
    /\ steps' = Append(steps, "report")
    /\ UNCHANGED <<fs, artifacts, budget, pc, kind, frozen, argv, input_file,
                   ctor_arg, model_path, loaded_from, self_model, input_csv,
                   csv_data, data, predictions, output_csv, output_file,
                   exit_code, failed_at, fs_at_call, last>>

\* line 95, and main returning: the exit status is 0
Report ==
    /\ pc = "main95"
    /\ stdout' = Append(stdout, <<"Predictions saved to: ", output_file>>)
    /\ steps' = Append(steps, "report")
    /\ pc' = "done"
    /\ exit_code' = 0
    /\ UNCHANGED <<fs, artifacts, budget, kind, frozen, argv, input_file,
                   ctor_arg, model_path, loaded_from, self_model, input_csv,
                   csv_data, data, predictions, output_csv, output_file,
                   failed_at, fs_at_call, last>>

\* the caller is done with its predictor
LibExit ==
    /\ pc = "ready"
    /\ pc' = "done"
    /\ exit_code' = 0
    /\ UNCHANGED <<fs, artifacts, budget, kind, frozen, argv, input_file,
                   ctor_arg, model_path, loaded_from, self_model, input_csv,
                   csv_data, data, predictions, output_csv, output_file,
                   stdout, steps, failed_at, fs_at_call, last>>

Next ==
    \/ RunMain
    \/ Import
    \/ MainArgv
    \/ MainConstruct
    \/ LibConstruct
    \/ Resolve
    \/ Load
    \/ MainCall
    \/ LibCall
    \/ Read
    \/ Drop
    \/ Predict
    \/ AppendColumn
    \/ Derive
    \/ Write
    \/ Return
    \/ Report
    \/ LibExit

Spec == Init /\ [][Next]_vars

(* ------------------------------- claims ------------------------------- *)
\* the elements of s at the indices in K, in the order of s
Sub(s, K) ==
    LET F[i \in 0..Len(s)] ==
            IF i = 0 THEN <<>>
            ELSE IF i \in K THEN Append(F[i - 1], s[i]) ELSE F[i - 1]
    IN  F[Len(s)]

\* the indices of the columns of a header other than the one named
Except(header, name) == {j \in 1..Len(header) : header[j] # name}

\* the feature values of row i of the table read
InputFeatures(i) ==
    Sub(csv_data.rows[i], Except(csv_data.columns, "target"))

\* the latest call wrote its table and the table is still the latest written
Wrote == pc \in {"return", "main95", "ready", "done"} /\ output_csv # <<>>

\* the latest call returned
Returned == pc \in {"main95", "ready", "done"} /\ output_csv # <<>>

\* the lines of the file the latest call wrote
Out == fs[output_csv]

\* C1: the table written has as many rows as the table read, in the same
\* order: the feature values of output row i are those of input row i
\* without 'target', and its 'predicted_target' is the model's prediction
\* for input row i.
C1_RowsAndOrderPreserved ==
    Wrote =>
        /\ Len(Out) - 1 = Len(csv_data.rows)
        /\ "predicted_target" \in Range(Out[1])
        /\ \A i \in 1..Len(csv_data.rows) :
              /\ Sub(Out[i + 1], Except(Out[1], "predicted_target"))
                    = InputFeatures(i)
              /\ Out[i + 1][IndexOf(Out[1], "predicted_target")]
                    = PredictRow(self_model, InputFeatures(i))

\* C2: when the table read has a 'target' column, preprocess_input returns
\* it with exactly that column removed: the other columns are all there, in
\* their order, with their values, and the row count is the same.
C2_TargetRemoved ==
    (pc = "predict" /\ "target" \in Range(csv_data.columns)) =>
        /\ data.columns = Sub(csv_data.columns, Except(csv_data.columns, "target"))
        /\ Len(data.columns) = Len(csv_data.columns) - 1
        /\ Len(data.rows) = Len(csv_data.rows)
        /\ \A i \in 1..Len(csv_data.rows) : data.rows[i] = InputFeatures(i)

C2_Witness ==
    /\ pc = "predict"
    /\ csv_data.columns = <<"a", "target", "Target">>
    /\ Len(csv_data.rows) = 2
    /\ data.columns = <<"a", "Target">>

\* C3: when the table read has no column named exactly 'target' (a 'Target'
\* column does not count), preprocess_input returns it unchanged, and it
\* raises nothing on a file that can be read.
C3_NoTargetUnchanged ==
    /\ (pc = "predict" /\ "target" \notin Range(csv_data.columns)) =>
          data = csv_data
    /\ failed_at # "drop"
    /\ (pc = "failed" /\ failed_at = "read") => ~Readable(fs_at_call, input_csv)

C3_Witness ==
    /\ pc = "predict"
    /\ "target" \notin Range(csv_data.columns)
    /\ "Target" \in Range(csv_data.columns)
    /\ Len(csv_data.columns) >= 2
    /\ Len(csv_data.rows) >= 1

\* where the file extension of p starts: at a dot of the last path component
\* that has a character other than a dot before it in that component
ExtensionDots(p) ==
    LET first == RFind(p, "/") + 1
    IN  {d \in first..Len(p) :
            p[d] = "." /\ \E k \in first..(d - 1) : p[k] # "."}

\* C4: the output path is the input path with only its final extension
\* stripped, followed by "_with_predictions.csv"; foo.csv gives
\* foo_with_predictions.csv and archive/data.v2.csv gives
\* archive/data.v2_with_predictions.csv; the path returned is the path the
\* table was written to.
C4_OutputPath ==
    /\ output_csv # <<>> =>
          /\ \E n \in 0..Len(input_csv) :
                LET ext == SubSeq(input_csv, n + 1, Len(input_csv))
                IN  /\ output_csv = SubSeq(input_csv, 1, n) \o WithPredictions
                    /\ ext = <<>> => ExtensionDots(input_csv) = {}
                    /\ ext # <<>> =>
                          /\ n + 1 \in ExtensionDots(input_csv)
                          /\ \A k \in 2..Len(ext) : ext[k] \notin {".", "/"}
          /\ input_csv = FooCsv => output_csv = FooOut
          /\ input_csv = ArchiveCsv => output_csv = ArchiveOut
    /\ Returned =>
          /\ output_file = output_csv
          /\ output_file \in DOMAIN fs
          /\ fs[output_file] = <<data.columns>> \o data.rows

C4_Witness ==
    /\ Returned
    /\ input_csv = ArchiveCsv
    /\ output_file = ArchiveOut
    /\ ArchiveOut \in DOMAIN fs

\* C5: the table written holds the feature columns of the table read (all
\* but 'target'), in their order and with their values, and one new column
\* 'predicted_target' after them: one column more than the feature table,
\* also when the table read has a 'predicted_target' column.
C5_PredictionAppendedLast ==
    Wrote =>
        /\ Out[1] = Append(Sub(csv_data.columns,
                               Except(csv_data.columns, "target")),
                           "predicted_target")
        /\ Len(Out) - 1 = Len(csv_data.rows)
        /\ \A i \in 1..Len(csv_data.rows) :
              Out[i + 1] = Append(InputFeatures(i),
                                  PredictRow(self_model, InputFeatures(i)))

C7_FailureLeavesNoOutput ==
    /\ failed_at # "None" =>
          /\ pc = "failed"
          /\ exit_code = 1
          /\ stdout = <<>>
          /\ failed_at \in {"argv", "load"} \/ steps[Len(steps)] = failed_at
    /\ failed_at \in {"argv", "load", "read", "predict"} => fs = fs_at_call
    /\ pc \in {"read", "drop", "predict", "append", "derive", "write"} =>
          fs = fs_at_call
    /\ pc = "write" =>
          /\ Readable(fs, input_csv)
          /\ csv_data = read_csv(fs[input_csv])
          /\ Accepts(self_model, preprocess_input(csv_data))
          /\ predictions = predict(self_model, preprocess_input(csv_data))
    /\ pc = "failed" => failed_at # "None"

C7_Witness ==
    /\ pc = "failed"
    /\ kind = "cli"
    /\ failed_at = "read"
    /\ input_csv = MissingPath
    /\ exit_code = 1
    /\ DOMAIN fs = DOMAIN fs_at_call

\* C8: a call of make_predictions on the input path of the call before it,
\* with the same model, gives the same output path and leaves the same
\* content in the output file.
C8_Idempotent ==
    (pc = "return" /\ last.input = input_csv /\ last.model = self_model) =>
        /\ output_csv = last.output
        /\ fs[output_csv] = last.content

C8_Witness ==
    /\ pc = "return"
    /\ kind = "cli"
    /\ last.input = input_csv
    /\ last.model = self_model
    /\ Len(last.content) >= 2

\* the steps of one run, in order
StepOrder ==
    <<"resolve", "load", "read", "drop", "predict", "append", "derive",
      "write", "report">>

\* C9: in a run of the command-line program the steps taken are a prefix of
\* resolve, load, read, drop, predict, append, derive, write, report: in
\* that order, each at most once; the output path is reported only after
\* the write has completed.
C9_LinearOrder ==
    kind = "cli" =>
        /\ Len(steps) <= Len(StepOrder)
        /\ steps = SubSeq(StepOrder, 1, Len(steps))
        /\ stdout # <<>> =>
              /\ Len(stdout) = 1
              /\ pc = "done"
              /\ stdout[1][2] \in DOMAIN fs
              /\ fs[stdout[1][2]] = to_csv(data)

C9_Witness ==
    /\ kind = "cli"
    /\ pc = "done"
    /\ steps = StepOrder
    /\ exit_code = 0

\* C10: the output path differs from the input path, and the file a call
\* read holds after the call what it held before it.
C10_InputNotOverwritten ==
    /\ output_csv # <<>> => output_csv # input_csv
    /\ (input_csv # <<>> /\ input_csv \in DOMAIN fs_at_call) =>
          /\ input_csv \in DOMAIN fs
          /\ fs[input_csv] = fs_at_call[input_csv]

C10_Witness ==
    /\ Wrote
    /\ input_csv = FooOut
    /\ output_csv = SubSeq(FooOut, 1, Len(FooOut) - 4) \o WithPredictions
    /\ fs[input_csv] = fs_at_call[input_csv]

====
